---- MODULE Spec2Model ----
(***************************************************************************)
(* Link verification engine of linkcheck (src/verify/mod.rs): the          *)
(* dispatcher verify_one, the orchestrator verify (par_bridge + map +      *)
(* collect) and Outcome::from_par_iter (fold + reduce).                    *)
(*                                                                         *)
(* One call of verify is modelled.  The bridged iterator hands each input  *)
(* pair to one of the leaf tasks of the parallel fold; a leaf runs         *)
(* verify_one for the pair step by step (cache query, then one verifier    *)
(* call per step), folds the triple into its private accumulator with      *)
(* Outcome::with_result and, when the iterator is exhausted, hands         *)
(* Outcome::merge(Outcome::default(), accumulator) to the reduction, which *)
(* joins neighbouring partial results with Outcome::merge.  A panic of a   *)
(* leaf or of a join is kept as the value Panic and resumed on the caller  *)
(* once every task has ended.                                              *)
(***************************************************************************)
EXTENDS Naturals, Sequences, FiniteSets, Bags, TLC

\* ------------------------------------------------------------------ bounds
MaxLinks == 2
MaxVerifiers == 2
MaxWorkers == 2

\* ------------------------------------------------------------------ inputs
Hrefs == {"file:./a.md", "https://example.com"}

\* The (location, link) pairs the caller may submit, each any number of times.
Pairs == {<<"loc1", "file:./a.md">>, <<"loc2", "https://example.com">>}

\* enum ValidationResult
Valid == "Valid"
Unsupported == "Unsupported"
Ignored == "Ignored"
ValidationResult == {Valid, Unsupported, Ignored}

\* Option<bool>, the answer of Cache::is_valid
CacheAnswers == {"None", "SomeTrue", "SomeFalse"}

\* The caches the caller may hand in: any answer for one href, the other unknown.
Caches == {c \in [Hrefs -> CacheAnswers] : \E h \in Hrefs : c[h] = "None"}

\* Verifier stubs handed to verify: the answer of each is a function of the
\* link alone; the web checker also records a link it validated in the cache.
VerifierKinds == {"PathChecker", "WebChecker", "IgnoreAll"}

SeqsUpTo(S, n) == UNION {[1..k -> S] : k \in 0..n}

\* ------------------------------------------------------------ collaborators
IsFile(href) == href = "file:./a.md"

\* Verifier::verify(link, cache) of a stub
VerifierVerify(kind, href) ==
    CASE kind = "PathChecker" -> IF IsFile(href) THEN Valid ELSE Unsupported
      [] kind = "WebChecker" -> IF IsFile(href) THEN Unsupported ELSE Valid
      [] kind = "IgnoreAll" -> Ignored

\* The cache after Verifier::verify(link, cache) of a stub ran: only the web
\* checker writes, through the cache's own interior mutability.
VerifierCacheWrite(kind, href, c) ==
    IF kind = "WebChecker" /\ VerifierVerify(kind, href) = Valid
    THEN [c EXCEPT ![href] = "SomeTrue"]
    ELSE c

\* Cache::is_valid(href)
CacheIsValid(c, href) == c[href]

\* ----------------------------------------------------------------- Outcome
\* struct Outcome {} has no field: its only value.
OutcomeDefault == "Outcome {}"
\* unimplemented!() panics with "not implemented"
Panic == "panic: not implemented"

\* Outcome::merge(left, right)
merge(left, right) == Panic

\* Outcome::with_result(self, location, link, result)
with_result(self, location, link, result) == Panic

\* The (location, link, result) triples an Outcome holds: the struct has no
\* field to hold any.
Entries(outcome) == EmptyBag

\* ---------------------------------------------------------------- verify_one
\* cache.is_valid(link.href()).unwrap_or(false)
CacheHit_never(ans) == FALSE
CacheHit_isSome(ans) == ans # "None"
CacheHit(ans) == ans = "SomeTrue"

\* match arm ValidationResult::Unsupported => continue
IsContinue_notValid(r) == r # Valid
IsContinue(r) == r = Unsupported

\* for verifier in verifiers: the k-th verifier tried is the k-th of the slice
ChainIndex_rev(n, k) == n + 1 - k
ChainIndex(n, k) == k

\* the value returned after the loop: ValidationResult::Unsupported
Fallthrough_valid == Valid
Fallthrough == Unsupported

\* The cache after verify_one asked it: is_valid is the only call, a read.
CacheAfterQuery_insert(c, href) == [c EXCEPT ![href] = "SomeFalse"]
CacheAfterQuery(c, href) == c

\* ------------------------------------------------------------------- state
VARIABLES
    links,      \* the input pairs <<location, href>>, in the iterator's order
    verifiers,  \* the verifier list given to verify
    cache,      \* the cache: href -> Option<bool>
    nleaves,    \* number of leaf tasks the bridge was split into
    next,       \* index of the next pair the bridged iterator yields
    pc,         \* leaf -> "idle" | "cache" | "chain" | "fold" | "done" | "panicked"
    item,       \* leaf -> index of the pair it is dispatching (0: none)
    vi,         \* leaf -> number of the next verifier of the chain
    res,        \* leaf -> result of verify_one for its pair ("none" before)
    acc,        \* leaf -> the fold accumulator (an Outcome)
    part,       \* leaf -> "pending" | "absorbed" | partial Outcome | Panic
    status,     \* "running" | "returned" | "panicked"
    ret,        \* what verify gave back: "none", an Outcome, or Panic
    answer,     \* history: pair -> what cache.is_valid answered for it ("none" before)
    claimedBy,  \* history: pair -> leaf that took it from the iterator (0: none)
    queries,    \* history: pair -> number of cache.is_valid calls for it
    calls,      \* history: pair -> the verifiers invoked for it, in order
    result,     \* history: pair -> result of verify_one ("none" before)
    folded      \* history: pair -> its triple was folded into an Outcome

vars == <<links, verifiers, cache, nleaves, next, pc, item, vi, res, acc, part,
          status, ret, answer, claimedBy, queries, calls, result, folded>>

\* What the engine only borrows: the arguments of verify and the split.
args == <<links, verifiers, nleaves>>
input == <<args, cache>>

Items == 1..Len(links)
Leaves == 1..nleaves
Location(i) == links[i][1]
Href(i) == links[i][2]

Init ==
    /\ links \in SeqsUpTo(Pairs, MaxLinks)
    /\ verifiers \in SeqsUpTo(VerifierKinds, MaxVerifiers)
    /\ cache \in Caches
    /\ nleaves \in 1..MaxWorkers
    /\ next = 1
    /\ pc = [w \in Leaves |-> "idle"]
    /\ item = [w \in Leaves |-> 0]
    /\ vi = [w \in Leaves |-> 0]
    /\ res = [w \in Leaves |-> "none"]
    /\ acc = [w \in Leaves |-> OutcomeDefault]
    /\ part = [w \in Leaves |-> "pending"]
    /\ status = "running"
    /\ ret = "none"
    /\ answer = [i \in Items |-> "none"]
    /\ claimedBy = [i \in Items |-> 0]
    /\ queries = [i \in Items |-> 0]
    /\ calls = [i \in Items |-> <<>>]
    /\ result = [i \in Items |-> "none"]
    /\ folded = [i \in Items |-> FALSE]

\* par_bridge: a leaf takes the next pair from the shared iterator and the
\* map closure starts verify_one for it.
Claim(w) ==
    /\ status = "running"
    /\ pc[w] = "idle"
    /\ next <= Len(links)
    /\ item' = [item EXCEPT ![w] = next]
    /\ claimedBy' = [claimedBy EXCEPT ![next] = w]
    /\ next' = next + 1
    /\ pc' = [pc EXCEPT ![w] = "cache"]
    /\ res' = [res EXCEPT ![w] = "none"]
    /\ UNCHANGED <<input, vi, acc, part, status, ret, answer, queries, calls, result,
                   folded>>

\* verify_one: the cache phase.
CacheQuery(w) ==
    /\ pc[w] = "cache"
    /\ LET i == item[w]
           ans == CacheIsValid(cache, Href(i))
       IN /\ queries' = [queries EXCEPT ![i] = @ + 1]
          /\ answer' = [answer EXCEPT ![i] = ans]
          /\ cache' = CacheAfterQuery(cache, Href(i))
          /\ IF CacheHit(ans)
             THEN /\ res' = [res EXCEPT ![w] = Valid]
                  /\ result' = [result EXCEPT ![i] = Valid]
                  /\ pc' = [pc EXCEPT ![w] = "fold"]
                  /\ vi' = vi
             ELSE /\ vi' = [vi EXCEPT ![w] = 1]
                  /\ pc' = [pc EXCEPT ![w] = "chain"]
                  /\ UNCHANGED <<res, result>>
    /\ UNCHANGED <<args, next, item, acc, part, status, ret, claimedBy, calls, folded>>

\* verify_one: one iteration of the verifier loop.
InvokeVerifier(w) ==
    /\ pc[w] = "chain"
    /\ vi[w] <= Len(verifiers)
    /\ LET i == item[w]
           k == ChainIndex(Len(verifiers), vi[w])
           r == VerifierVerify(verifiers[k], Href(i))
       IN /\ calls' = [calls EXCEPT ![i] = Append(@, k)]
          /\ cache' = VerifierCacheWrite(verifiers[k], Href(i), cache)
          /\ IF IsContinue(r)
             THEN /\ vi' = [vi EXCEPT ![w] = @ + 1]
                  /\ UNCHANGED <<pc, res, result>>
             ELSE /\ res' = [res EXCEPT ![w] = r]
                  /\ result' = [result EXCEPT ![i] = r]
                  /\ pc' = [pc EXCEPT ![w] = "fold"]
                  /\ vi' = vi
    /\ UNCHANGED <<args, next, item, acc, part, status, ret, answer, claimedBy, queries,
                   folded>>

\* verify_one: the loop ran out of verifiers.
Exhausted(w) ==
    /\ pc[w] = "chain"
    /\ vi[w] > Len(verifiers)
    /\ res' = [res EXCEPT ![w] = Fallthrough]
    /\ result' = [result EXCEPT ![item[w]] = Fallthrough]
    /\ pc' = [pc EXCEPT ![w] = "fold"]
    /\ UNCHANGED <<input, next, item, vi, acc, part, status, ret, answer, claimedBy,
                   queries, calls, folded>>

\* fold: outcome.with_result(location, link, result) on the leaf's accumulator.
Fold(w) ==
    /\ pc[w] = "fold"
    /\ LET i == item[w]
           new == with_result(acc[w], Location(i), Href(i), res[w])
       IN IF new = Panic
          THEN /\ pc' = [pc EXCEPT ![w] = "panicked"]
               /\ part' = [part EXCEPT ![w] = Panic]
               /\ UNCHANGED <<acc, folded>>
          ELSE /\ acc' = [acc EXCEPT ![w] = new]
               /\ folded' = [folded EXCEPT ![i] = TRUE]
               /\ pc' = [pc EXCEPT ![w] = "idle"]
               /\ part' = part
    /\ UNCHANGED <<input, next, item, vi, res, status, ret, answer, claimedBy, queries,
                   calls, result>>

\* The iterator is exhausted: the leaf's fold result is consumed by the
\* reduce folder, which starts from the identity Outcome::default().
Complete(w) ==
    /\ status = "running"
    /\ pc[w] = "idle"
    /\ next > Len(links)
    /\ LET r == merge(OutcomeDefault, acc[w])
       IN /\ part' = [part EXCEPT ![w] = r]
          /\ pc' = [pc EXCEPT ![w] = IF r = Panic THEN "panicked" ELSE "done"]
    /\ UNCHANGED <<input, next, item, vi, res, acc, status, ret, answer, claimedBy,
                   queries, calls, result, folded>>

\* A task's result is there to be joined: it ended and was not joined yet.
Ended(p) == p \notin {"pending", "absorbed"}

\* reduce: two neighbouring partial results are joined; a panic of either side
\* is resumed instead of calling Outcome::merge.
Join(a, b) ==
    /\ a < b
    /\ Ended(part[a])
    /\ Ended(part[b])
    /\ \A m \in Leaves : (a < m /\ m < b) => part[m] = "absorbed"
    /\ part' = [part EXCEPT
                  ![a] = IF part[a] = Panic \/ part[b] = Panic
                         THEN Panic
                         ELSE merge(part[a], part[b]),
                  ![b] = "absorbed"]
    /\ UNCHANGED <<input, next, pc, item, vi, res, acc, status, ret, answer, claimedBy,
                   queries, calls, result, folded>>

\* collect() gives the reduced Outcome back to the caller of verify, or the
\* panic is resumed there.
Return ==
    /\ status = "running"
    /\ Ended(part[1])
    /\ \A m \in Leaves : m # 1 => part[m] = "absorbed"
    /\ ret' = part[1]
    /\ status' = IF part[1] = Panic THEN "panicked" ELSE "returned"
    /\ UNCHANGED <<input, next, pc, item, vi, res, acc, part, answer, claimedBy,
                   queries, calls, result, folded>>

Next ==
    \/ \E w \in Leaves : Claim(w)
    \/ \E w \in Leaves : CacheQuery(w)
    \/ \E w \in Leaves : InvokeVerifier(w)
    \/ \E w \in Leaves : Exhausted(w)
    \/ \E w \in Leaves : Fold(w)
    \/ \E w \in Leaves : Complete(w)
    \/ \E a \in Leaves : \E b \in Leaves : Join(a, b)
    \/ Return

Spec == Init /\ [][Next]_vars

\* ------------------------------------------------- verify_one as a function
\* The verifier loop from the k-th verifier on: the first answer that is not
\* Unsupported, or Unsupported when the slice is exhausted.
RECURSIVE ChainResult(_, _, _)
ChainResult(vs, href, k) ==
    IF k > Len(vs)
    THEN Unsupported
    ELSE LET r == VerifierVerify(vs[k], href)
         IN IF r = Unsupported THEN ChainResult(vs, href, k + 1) ELSE r

\* The verifiers that loop invokes, in order.
RECURSIVE ChainCalls(_, _, _)
ChainCalls(vs, href, k) ==
    IF k > Len(vs)
    THEN <<>>
    ELSE IF VerifierVerify(vs[k], href) = Unsupported
         THEN <<k>> \o ChainCalls(vs, href, k + 1)
         ELSE <<k>>

\* verify_one(link, verifiers, cache), on the cache as it is now
VerifyOne(href) ==
    IF CacheIsValid(cache, href) = "SomeTrue"
    THEN Valid
    ELSE ChainResult(verifiers, href, 1)

\* The triples the map closure of verify yields, in input order.
Triples == [i \in Items |-> <<Location(i), Href(i), VerifyOne(Href(i))>>]

\* A sequential fold of triples with with_result; a panic ends it.
RECURSIVE FoldSeq(_, _)
FoldSeq(o, s) ==
    IF s = <<>> \/ o = Panic
    THEN o
    ELSE FoldSeq(with_result(o, s[1][1], s[1][2], s[1][3]), Tail(s))

\* merge of two partial results; a panic of either side is resumed.
MergeParts(l, r) == IF l = Panic \/ r = Panic THEN Panic ELSE merge(l, r)

\* The triples with index in S, in input order.
RECURSIVE Sel(_, _)
Sel(S, k) ==
    IF k > Len(links)
    THEN <<>>
    ELSE (IF k \in S THEN <<Triples[k]>> ELSE <<>>) \o Sel(S, k + 1)

RECURSIVE BagOfSeq(_)
BagOfSeq(s) == IF s = <<>> THEN EmptyBag ELSE SetToBag({Head(s)}) (+) BagOfSeq(Tail(s))

Dispatched(i) == result[i] # "none"
\* What the cache answered when verify_one asked it about pair i.
CacheAffirmative(i) == answer[i] = "SomeTrue"
InChain(i) == \E w \in Leaves : item[w] = i /\ pc[w] \in {"cache", "chain"}
IsOutcome(o) == o = OutcomeDefault

\* ------------------------------------------------------------------ claims

\* C1: once verify has ended it has returned an Outcome that holds exactly one
\* classification per input pair, counted as a multiset.
C1_Completeness ==
    status # "running" =>
        /\ IsOutcome(ret)
        /\ Entries(ret) = BagOfSeq(Triples)

\* C2: for every split of the input into disjoint subsets, folding each subset
\* with with_result and merging the partial Outcomes, in either order and in
\* either grouping, gives the Outcome of the sequential fold of the whole input.
C2_PartitionMerge ==
    \A S \in SUBSET Items : \A T \in SUBSET (Items \ S) :
        LET whole == FoldSeq(OutcomeDefault, Triples)
            a == FoldSeq(OutcomeDefault, Sel(S, 1))
            b == FoldSeq(OutcomeDefault, Sel(T, 1))
            c == FoldSeq(OutcomeDefault, Sel(Items \ (S \cup T), 1))
        IN /\ IsOutcome(whole)
           /\ MergeParts(MergeParts(a, b), c) = whole
           /\ MergeParts(a, MergeParts(b, c)) = whole
           /\ MergeParts(c, MergeParts(b, a)) = whole

\* C3: a link whose href the cache reports known-valid never has a verifier
\* invoked for it, and the result of its dispatch is Valid.
C3_CacheShortCircuit ==
    \A i \in Items :
        CacheAffirmative(i) =>
            /\ calls[i] = <<>>
            /\ queries[i] >= 1 => result[i] = Valid

C3_Witness ==
    \E i \in Items :
        /\ CacheAffirmative(i)
        /\ queries[i] = 1
        /\ result[i] = Valid
        /\ Len(verifiers) >= 1
        /\ VerifierVerify(verifiers[1], Href(i)) # Valid

\* C4: the verifiers invoked for a link are the first, second, ... of the list,
\* each invoked only after the one before it returned Unsupported, and the
\* chain starts as soon as the cache was not affirmative; with [A, B], A
\* returning Unsupported and B Valid, the result is Valid after A then B.
C4_VerifierOrder ==
    \A i \in Items :
        /\ \A k \in 1..Len(calls[i]) :
              /\ calls[i][k] = k
              /\ k < Len(calls[i]) =>
                    VerifierVerify(verifiers[k], Href(i)) = Unsupported
        /\ (Dispatched(i) /\ ~CacheAffirmative(i) /\ Len(verifiers) >= 1) =>
              Len(calls[i]) >= 1
        /\ ( /\ Dispatched(i)
             /\ ~CacheAffirmative(i)
             /\ Len(verifiers) = 2
             /\ VerifierVerify(verifiers[1], Href(i)) = Unsupported
             /\ VerifierVerify(verifiers[2], Href(i)) = Valid ) =>
              result[i] = Valid /\ calls[i] = <<1, 2>>

C4_Witness ==
    \E i \in Items :
        /\ ~CacheAffirmative(i)
        /\ verifiers = <<"PathChecker", "WebChecker">>
        /\ ~IsFile(Href(i))
        /\ result[i] = Valid
        /\ calls[i] = <<1, 2>>

\* C5: a verifier answer of Valid or Ignored ends the chain: it is the last
\* call made for the link and it is the result of the dispatch.
C5_ShortCircuit ==
    \A i \in Items : \A k \in 1..Len(calls[i]) :
        LET r == VerifierVerify(verifiers[calls[i][k]], Href(i))
        IN r \in {Valid, Ignored} =>
              /\ k = Len(calls[i])
              /\ result[i] = r
              /\ ~InChain(i)

C5_Witness ==
    \E i \in Items :
        /\ Len(verifiers) = 2
        /\ verifiers[1] = "IgnoreAll"
        /\ result[i] = Ignored
        /\ calls[i] = <<1>>
        /\ ~InChain(i)
        /\ status # "running"

\* C6: a link the cache does not know and every verifier answers Unsupported
\* for is dispatched to Unsupported, and the Outcome verify gives back holds
\* it with that classification.
C6_ExhaustionReported ==
    \A i \in Items :
        ( /\ answer[i] = "None"
          /\ \A k \in 1..Len(verifiers) :
                VerifierVerify(verifiers[k], Href(i)) = Unsupported ) =>
            /\ result[i] \in {"none", Unsupported}
            /\ status # "running" =>
                  /\ IsOutcome(ret)
                  /\ BagIn(<<Location(i), Href(i), Unsupported>>, Entries(ret))

\* The part of C6 that is about verify_one alone: such a link is never
\* dispatched to anything but Unsupported.
C6_ExhaustionUnsupported ==
    \A i \in Items :
        ( /\ answer[i] = "None"
          /\ \A k \in 1..Len(verifiers) :
                VerifierVerify(verifiers[k], Href(i)) = Unsupported ) =>
            /\ result[i] \in {"none", Unsupported}
            /\ ~InChain(i) /\ claimedBy[i] # 0 => result[i] = Unsupported

\* C7: a cache answer of None or Some(false) decides nothing: the dispatch runs
\* the verifier chain from its first verifier and its result is the chain's.
C7_NegativeCacheNotDecisive ==
    \A i \in Items :
        (Dispatched(i) /\ ~CacheAffirmative(i)) =>
            /\ result[i] = ChainResult(verifiers, Href(i), 1)
            /\ calls[i] = ChainCalls(verifiers, Href(i), 1)

C7_Witness ==
    \E i \in Items :
        /\ answer[i] = "SomeFalse"
        /\ result[i] = Valid
        /\ calls[i] # <<>>

\* C8: no leaf task, no join and no call of verify ends in a panic.
C8_NoPanic ==
    /\ status # "panicked"
    /\ \A w \in Leaves : pc[w] # "panicked" /\ part[w] # Panic

\* C9: whatever the number of leaves and the interleaving, verify gives back
\* the one Outcome that the input determines, the sequential fold of its triples.
C9_Deterministic ==
    status # "running" =>
        /\ status = "returned"
        /\ ret = FoldSeq(OutcomeDefault, Triples)

\* C10: verify ends by returning, and only after every input pair was
\* dispatched and its result folded into the Outcome.
C10_ReturnsAfterAll ==
    status # "running" =>
        /\ status = "returned"
        /\ \A i \in Items : Dispatched(i) /\ folded[i]

\* C11: the Outcome verify gives back records every pair with its own location
\* and with the result of the dispatch of its own link, and nothing else.
C11_OwnClassification ==
    status # "running" =>
        /\ IsOutcome(ret)
        /\ \A i \in Items :
              BagIn(<<Location(i), Href(i), result[i]>>, Entries(ret))
        /\ \A e \in BagToSet(Entries(ret)) :
              \E i \in Items : e = <<Location(i), Href(i), result[i]>>

\* The part of C11 that is about the map closure alone: the triple a leaf
\* hands to the fold carries the result its own link's dispatch gave, which
\* the cache answer for that link and the verifier list determine.
C11_TripleOwn ==
    \A w \in Leaves :
        pc[w] \in {"fold", "panicked"} /\ item[w] # 0 =>
            /\ res[w] = result[item[w]]
            /\ res[w] = IF CacheAffirmative(item[w])
                        THEN Valid
                        ELSE ChainResult(verifiers, Href(item[w]), 1)

\* C12: on the Outcomes of a run, merge is commutative and associative, gives
\* an Outcome, and has Outcome::default() as its identity on both sides.
C12_CommutativeMonoid ==
    LET O == {OutcomeDefault} \cup {acc[w] : w \in Leaves}
    IN \A a \in O : \A b \in O : \A c \in O :
          /\ IsOutcome(merge(a, b))
          /\ merge(a, b) = merge(b, a)
          /\ MergeParts(merge(a, b), c) = MergeParts(a, merge(b, c))
          /\ merge(OutcomeDefault, a) = a
          /\ merge(a, OutcomeDefault) = a

\* C13: a dispatch result of Valid comes from the cache's known-valid answer or
\* from an invoked verifier that answered Valid; Ignored from an invoked
\* verifier that answered Ignored after every one before it answered
\* Unsupported, the cache not affirmative; Unsupported from every verifier of
\* the list having been invoked and answered Unsupported, the cache not
\* affirmative.
C13_ResultOnlyIf ==
    \A i \in Items :
        LET ans(k) == VerifierVerify(verifiers[calls[i][k]], Href(i))
            n == Len(calls[i])
        IN /\ result[i] = Valid =>
                 \/ CacheAffirmative(i)
                 \/ \E k \in 1..n : ans(k) = Valid
           /\ result[i] = Ignored =>
                 /\ ~CacheAffirmative(i)
                 /\ \E k \in 1..n :
                       /\ ans(k) = Ignored
                       /\ \A j \in 1..(k - 1) : ans(j) = Unsupported
           /\ result[i] = Unsupported =>
                 /\ ~CacheAffirmative(i)
                 /\ {calls[i][k] : k \in 1..n} = 1..Len(verifiers)
                 /\ \A k \in 1..n : ans(k) = Unsupported

C13_Witness ==
    \E i \in Items :
        /\ answer[i] = "SomeFalse"
        /\ verifiers = <<"PathChecker", "IgnoreAll">>
        /\ ~IsFile(Href(i))
        /\ result[i] = Ignored
        /\ calls[i] = <<1, 2>>

\* C14: no pair has the cache queried or a verifier invoked for it twice, and
\* when verify has ended every pair was dispatched: claimed by a leaf, with
\* exactly one cache query.
C14_ExactlyOnce ==
    \A i \in Items :
        /\ queries[i] <= 1
        /\ \A j \in 1..Len(calls[i]) : \A k \in 1..Len(calls[i]) :
              calls[i][j] = calls[i][k] => j = k
        /\ status # "running" => claimedBy[i] # 0 /\ queries[i] = 1

\* The part of C14 that holds of every run: nothing is done twice for a pair.
C14_AtMostOnce ==
    \A i \in Items :
        /\ queries[i] <= 1
        /\ queries[i] = 1 <=> answer[i] # "none"
        /\ \A j \in 1..Len(calls[i]) : \A k \in 1..Len(calls[i]) :
              calls[i][j] = calls[i][k] => j = k

\* C15: when verify has ended every input pair was claimed by exactly one
\* leaf; at no time do two leaves hold the same pair, and a leaf's partial
\* result is with the reduction only once the leaf has stopped folding.
C15_ExactlyOneOwner ==
    /\ \A i \in Items :
          /\ Cardinality({w \in Leaves : item[w] = i}) <= 1
          /\ status # "running" => claimedBy[i] \in Leaves
    /\ \A w \in Leaves :
          part[w] # "pending" => pc[w] \in {"done", "panicked"}

\* The part of C15 that holds of every run: a pair the iterator yielded is
\* held by one leaf and never by two, and a partial result reaches the
\* reduction only after its leaf stopped folding.
C15_PrivatePartials ==
    /\ \A i \in Items :
          /\ i < next <=> claimedBy[i] # 0
          /\ claimedBy[i] # 0 => claimedBy[i] \in Leaves
          /\ Cardinality({w \in Leaves : item[w] = i}) <= 1
          /\ \A w \in Leaves : item[w] = i => claimedBy[i] = w
    /\ \A w \in Leaves :
          /\ part[w] # "pending" => pc[w] \in {"done", "panicked"}
          /\ pc[w] \in {"cache", "chain", "fold"} => item[w] # 0

\* C16: every leaf starts its fold from the empty Outcome, and the Outcome a
\* call gives back is an Outcome whose entries are all pairs of that call's
\* own input.
C16_FreshPerCall ==
    /\ \A w \in Leaves : (pc[w] = "idle" /\ item[w] = 0) => acc[w] = OutcomeDefault
    /\ status # "running" =>
          /\ IsOutcome(ret)
          /\ \A e \in BagToSet(Entries(ret)) :
                \E i \in Items : e[1] = Location(i) /\ e[2] = Href(i)

\* C17: no step of the run changes the input pairs, the verifier list or its
\* order; the cache changes only in a step that invokes a verifier, and then
\* to what that verifier wrote.
C17_EngineLeavesCollaborators ==
    [][ /\ verifiers' = verifiers
        /\ links' = links
        /\ cache' # cache =>
              \E w \in Leaves :
                 /\ pc[w] = "chain"
                 /\ vi[w] <= Len(verifiers)
                 /\ calls'[item[w]] = Append(calls[item[w]], vi[w])
                 /\ cache' = VerifierCacheWrite(verifiers[vi[w]], Href(item[w]), cache)
      ]_vars

C17_Witness ==
    \E i \in Items :
        /\ answer[i] = "None"
        /\ cache[Href(i)] = "SomeTrue"
        /\ Len(verifiers) = 2
        /\ calls[i] = <<1, 2>>
        /\ verifiers[2] = "WebChecker"

====
